---- MODULE Spec2Model ----
(***************************************************************************)
(* BallisticLaunch: the Simulation class of BallisticLaunch/main.py, and   *)
(* its copy in BallisticLaunch/BallisticLaunch.py, whose launch() inlines  *)
(* _evolve_system and is otherwise the same.                               *)
(*                                                                         *)
(* Numbers.  Every number of the program is a binary floating-point value  *)
(* (Python float, numpy float64): each arithmetic operation returns the    *)
(* representable value nearest to the exact result, ties to even.  The     *)
(* model keeps that arithmetic with a shorter significand (6 bits for the  *)
(* 53 of float64), so that the rounding of  t += h  happens at the         *)
(* magnitudes the model explores.  A finite value is the integer n         *)
(* standing for n / Unit; the representable ones are the n with at most 6  *)
(* significant bits.  Division by zero gives numpy's inf, -inf or nan,     *)
(* which only the flight time can hold.                                    *)
(*                                                                         *)
(* Calls.  The object is used by one caller, one call at a time.  A setter *)
(* is one step.  launch() is a step per turn of its loop, between its      *)
(* entry and its return; no other call starts meanwhile.  set_vx0 and      *)
(* set_vy0 are modelled where the class calls them, inside set_v0.         *)
(***************************************************************************)
EXTENDS Integers, Sequences, FiniteSets, TLC

----------------------------------------------------------------------------
(* Floating point *)

\* One unit in the last place of the smallest binade: values are n / Unit.
Unit == 4096

\* 2^p for a significand of p = 6 bits (float64 has p = 53).
Precision == 64

Abs(n) == IF n < 0 THEN -n ELSE n

\* a / d rounded to the nearest integer, ties to the even one (a >= 0, d > 0).
RoundHalfEven(a, d) ==
    LET q == a \div d
        r == a % d
    IN  IF 2 * r > d \/ (2 * r = d /\ q % 2 = 1) THEN q + 1 ELSE q

\* Distance between neighbouring representable values around q >= 0.
RECURSIVE Ulp(_)
Ulp(q) == IF q < Precision THEN 1 ELSE 2 * Ulp(q \div 2)

\* The representable value nearest to num / den (den > 0).
Round(num, den) ==
    LET a  == Abs(num)
        sp == Ulp(a \div den)
        m  == RoundHalfEven(a, den * sp) * sp
    IN  IF num < 0 THEN -m ELSE m

\* a + b, a * b, a / b (b # 0) of two floats.
FAdd(a, b) == Round(a + b, 1)
FMul(a, b) == Round(a * b, Unit)
FDiv(a, b) == IF b > 0 THEN Round(a * Unit, b) ELSE Round(-(a * Unit), -b)

\* The float of an integer literal, and of the decimal literal num / den.
Lit(k) == Round(k * Unit, 1)
Dec(num, den) == Round(num * Unit, den)

\* numpy's quotient of two float64: a zero divisor gives inf, -inf or nan.
NpDiv(a, b) ==
    IF b # 0 THEN [kind |-> "finite", n |-> FDiv(a, b)]
    ELSE IF a > 0 THEN [kind |-> "inf", n |-> 0]
    ELSE IF a < 0 THEN [kind |-> "-inf", n |-> 0]
    ELSE [kind |-> "nan", n |-> 0]

\* x <= 0, x > 0 and t < x for a possibly non-finite x (every comparison with
\* nan is false).
LeZero(x) == x.kind = "-inf" \/ (x.kind = "finite" /\ x.n <= 0)
GtZero(x) == x.kind = "inf" \/ (x.kind = "finite" /\ x.n > 0)
Less(t, x) == x.kind = "inf" \/ (x.kind = "finite" /\ t < x.n)

\* pi / 180 as a float (0.017578125 at this precision).
PiOver180 == 72

\* np.deg2rad(x) = x * (pi / 180).
deg2rad(x) == FMul(x, PiOver180)

\* np.sin and np.cos: the correctly rounded sine and cosine of a float,
\* tabulated on the arguments the model passes: the angles 0, 60 and 90 taken
\* as radians (as set_v0 passes them), and their np.deg2rad images 0, 1.0625
\* and 1.59375 (as __init__ passes them).
np_sin(x) ==
    CASE x = 0      -> 0
      [] x = 4352   -> 3584     \* sin(1.0625)  =  0.87357...  ->  0.875
      [] x = 6528   -> 4096     \* sin(1.59375) =  0.99973...  ->  1.0
      [] x = 245760 -> -1248    \* sin(60.0)    = -0.30481...  -> -0.3046875
      [] x = 368640 -> 3648     \* sin(90.0)    =  0.89399...  ->  0.890625

np_cos(x) ==
    CASE x = 0      -> 4096
      [] x = 4352   -> 1984     \* cos(1.0625)  =  0.48668...  ->  0.484375
      [] x = 6528   -> -94      \* cos(1.59375) = -0.02295...  -> -0.02294921875
      [] x = 245760 -> -3904    \* cos(60.0)    = -0.95241...  -> -0.953125
      [] x = 368640 -> -1824    \* cos(90.0)    = -0.44807...  -> -0.4453125

----------------------------------------------------------------------------
(* Inputs *)

\* Longest run of the sampling loop the model follows.
MaxSamples == 22

Speeds == {Lit(5), Lit(10)}
Angles == {Lit(0), Lit(60), Lit(90)}
Gravities == {Lit(10), Lit(0), Lit(-10)}
Coords == {<<Lit(0), Lit(0)>>, <<Lit(1), Lit(2)>>}
Steps == {Dec(1, 5), Dec(1, 10), Lit(0)}

----------------------------------------------------------------------------
(* State *)

VARIABLES
    initial_velocity, launch_angle,            \* self.initial_velocity, self.launch_angle
    x_initial_velocity, y_initial_velocity,    \* the cached components
    grav_acc, launch_coordx, launch_coordy, step,
    has_trajectory, trajectory_array,          \* self.trajectory_array, absent until a launch returns
    pc, t, t_max, h, positions_array,          \* launch()'s frame
    last, raised, returned,                    \* the last completed call, what it raised, what launch returned
    since, between, prev_returned              \* history of the returned launches

config == <<initial_velocity, launch_angle, x_initial_velocity, y_initial_velocity,
            grav_acc, launch_coordx, launch_coordy, step>>
stored == <<has_trajectory, trajectory_array>>
frame == <<pc, t, t_max, h, positions_array>>
history == <<last, raised, returned, since, between, prev_returned>>
vars == <<config, stored, frame, history>>

\* The components as __init__ derives them from a speed and an angle in degrees.
DerivedX(v0, theta) == FMul(v0, np_cos(deg2rad(theta)))
DerivedY(v0, theta) == FMul(v0, np_sin(deg2rad(theta)))

\* t_max where launch() holds none (outside the call).
NoFlightTime == [kind |-> "finite", n |-> 0]

\* Simulation.__init__
Init ==
    \E v0 \in Speeds, theta \in Angles, g \in Gravities, launch_coord \in Coords, s \in Steps :
        /\ initial_velocity = v0
        /\ y_initial_velocity = DerivedY(v0, theta)
        /\ x_initial_velocity = DerivedX(v0, theta)
        /\ launch_angle = theta
        /\ grav_acc = g
        /\ launch_coordx = launch_coord[1]
        /\ launch_coordy = launch_coord[2]
        /\ step = s
        /\ has_trajectory = FALSE
        /\ trajectory_array = <<>>
        /\ pc = "idle" /\ t = 0 /\ t_max = NoFlightTime /\ h = 0 /\ positions_array = <<>>
        /\ last = "__init__" /\ raised = "none" /\ returned = <<>>
        /\ since = "other" /\ between = "other" /\ prev_returned = <<>>

----------------------------------------------------------------------------
(* Queries *)

get_time_flight == NpDiv(FMul(Lit(2), y_initial_velocity), grav_acc)

evolve_system(time) ==
    LET t2 == FMul(time, time)
        x == FAdd(FAdd(FMul(x_initial_velocity, time), FMul(Lit(0), t2)),
                  FMul(launch_coordx, Lit(1)))
        y == FAdd(FAdd(FMul(y_initial_velocity, time),
                       FMul(FMul(FMul(Lit(-1), Dec(1, 2)), grav_acc), t2)),
                  FMul(launch_coordy, Lit(1)))
    IN  <<x, y>>

----------------------------------------------------------------------------
(* Setters *)

\* What a completed setter call leaves in the history.  The value the last
\* launch returned is remembered only for the comparison with the next one:
\* directly after it (since = "none"), or after the one call set_step(step / 2)
\* (since = "halved").
AfterSetter(name, halves) ==
    /\ last' = name
    /\ raised' = "none"
    /\ since' = IF halves /\ since = "none" THEN "halved" ELSE "other"
    /\ returned' = IF halves /\ since = "none" THEN returned ELSE <<>>
    /\ between' = "other"
    /\ prev_returned' = <<>>

set_v0(v0) ==
    /\ pc = "idle"
    /\ initial_velocity' = v0
    /\ x_initial_velocity' = FMul(v0, np_cos(launch_angle))
    /\ y_initial_velocity' = FMul(v0, np_sin(launch_angle))
    /\ UNCHANGED <<launch_angle, grav_acc, launch_coordx, launch_coordy, step>>
    /\ UNCHANGED <<stored, frame>>
    /\ AfterSetter("set_v0", FALSE)

set_theta(theta) ==
    /\ pc = "idle"
    /\ launch_angle' = theta
    /\ UNCHANGED <<initial_velocity, x_initial_velocity, y_initial_velocity,
                   grav_acc, launch_coordx, launch_coordy, step>>
    /\ UNCHANGED <<stored, frame>>
    /\ AfterSetter("set_theta", FALSE)

set_g(g) ==
    /\ pc = "idle"
    /\ grav_acc' = g
    /\ UNCHANGED <<initial_velocity, launch_angle, x_initial_velocity, y_initial_velocity,
                   launch_coordx, launch_coordy, step>>
    /\ UNCHANGED <<stored, frame>>
    /\ AfterSetter("set_g", FALSE)

set_launch_coord(launch_coord) ==
    /\ pc = "idle"
    /\ launch_coordx' = launch_coord[1]
    /\ launch_coordy' = launch_coord[2]
    /\ UNCHANGED <<initial_velocity, launch_angle, x_initial_velocity, y_initial_velocity,
                   grav_acc, step>>
    /\ UNCHANGED <<stored, frame>>
    /\ AfterSetter("set_launch_coord", FALSE)

set_step(s) ==
    /\ pc = "idle"
    /\ step' = s
    /\ UNCHANGED <<initial_velocity, launch_angle, x_initial_velocity, y_initial_velocity,
                   grav_acc, launch_coordx, launch_coordy>>
    /\ UNCHANGED <<stored, frame>>
    /\ AfterSetter("set_step", s # 0 /\ FAdd(s, s) = step)

----------------------------------------------------------------------------
(* launch *)

\* A flight-time check that lets a zero flight time through.
FlightTimeInvalidStrict(x) == x.kind = "-inf" \/ (x.kind = "finite" /\ x.n < 0)

\* if t_max <= 0
FlightTimeInvalid(x) == LeZero(x)

\* A launch() that stores its (still empty) list before the flight-time check.
launch_raise_storing ==
    /\ pc = "idle"
    /\ FlightTimeInvalid(get_time_flight)
    /\ has_trajectory' = TRUE
    /\ trajectory_array' = <<>>
    /\ last' = "launch"
    /\ raised' = "FlightTimeException"
    /\ returned' = <<>>
    /\ since' = "other" /\ between' = "other" /\ prev_returned' = <<>>
    /\ UNCHANGED <<config, frame>>

\* launch(), up to the flight-time check, when the check raises.
launch_raise ==
    /\ pc = "idle"
    /\ FlightTimeInvalid(get_time_flight)
    /\ last' = "launch"
    /\ raised' = "FlightTimeException"
    /\ returned' = <<>>
    /\ since' = "other" /\ between' = "other" /\ prev_returned' = <<>>
    /\ UNCHANGED <<config, stored, frame>>

\* launch(), up to the flight-time check, when the check passes.
launch_enter ==
    /\ pc = "idle"
    /\ ~FlightTimeInvalid(get_time_flight)
    /\ pc' = "loop"
    /\ t' = 0
    /\ t_max' = get_time_flight
    /\ h' = step
    /\ positions_array' = <<>>
    /\ UNCHANGED <<config, stored, history>>

\* One turn of  while t < t_max.
launch_sample ==
    /\ pc = "loop"
    /\ Less(t, t_max)
    /\ Len(positions_array) < MaxSamples
    /\ positions_array' = Append(positions_array, evolve_system(t))
    /\ t' = FAdd(t, h)
    /\ UNCHANGED <<pc, t_max, h, config, stored, history>>

\* A launch() that extends the stored trajectory instead of replacing it.
launch_return_appending ==
    /\ pc = "loop"
    /\ ~Less(t, t_max)
    /\ trajectory_array' = trajectory_array \o positions_array
    /\ has_trajectory' = TRUE
    /\ pc' = "idle" /\ t' = 0 /\ t_max' = NoFlightTime /\ h' = 0 /\ positions_array' = <<>>
    /\ last' = "launch"
    /\ raised' = "none"
    /\ returned' = trajectory_array \o positions_array
    /\ between' = since
    /\ prev_returned' = IF since = "other" THEN <<>> ELSE returned
    /\ since' = "none"
    /\ UNCHANGED config

\* The loop is left: the trajectory is stored and returned.
launch_return ==
    /\ pc = "loop"
    /\ ~Less(t, t_max)
    /\ trajectory_array' = positions_array
    /\ has_trajectory' = TRUE
    /\ pc' = "idle" /\ t' = 0 /\ t_max' = NoFlightTime /\ h' = 0 /\ positions_array' = <<>>
    /\ last' = "launch"
    /\ raised' = "none"
    /\ returned' = positions_array
    /\ between' = since
    /\ prev_returned' = IF since = "other" THEN <<>> ELSE returned
    /\ since' = "none"
    /\ UNCHANGED config

----------------------------------------------------------------------------

Next ==
    \/ \E v0 \in Speeds : set_v0(v0)
    \/ \E theta \in Angles : set_theta(theta)
    \/ \E g \in Gravities : set_g(g)
    \/ \E launch_coord \in Coords : set_launch_coord(launch_coord)
    \/ \E s \in Steps : set_step(s)
    \/ launch_raise
    \/ launch_enter
    \/ launch_sample
    \/ launch_return

Spec == Init /\ [][Next]_vars

----------------------------------------------------------------------------
(* Properties *)

\* The cached components are the ones the current speed and angle give.
ComponentsMatch ==
    /\ x_initial_velocity = DerivedX(initial_velocity, launch_angle)
    /\ y_initial_velocity = DerivedY(initial_velocity, launch_angle)

\* The least integer >= a / b, for b > 0.
CeilDiv(a, b) == -((-a) \div b)

\* A call of launch() has just come back, by return or by raise.
LaunchReturned == pc = "idle" /\ last = "launch" /\ raised = "none"
LaunchRaised == pc = "idle" /\ last = "launch" /\ raised = "FlightTimeException"

\* C1: launch() raises FlightTimeException exactly when the flight time
\* 2 * vy / g is <= 0: a call that has come back raised it if the flight time
\* is <= 0 and raised nothing if it is > 0, the sampling loop is never entered
\* with a flight time <= 0; and the object built from speed 10, angle 0,
\* gravity 10 has flight time 0.
C1_FlightTimeError ==
    /\ (pc = "idle" /\ last = "launch" /\ LeZero(get_time_flight))
          => raised = "FlightTimeException"
    /\ (pc = "idle" /\ last = "launch" /\ GtZero(get_time_flight))
          => raised = "none"
    /\ pc = "loop" => ~LeZero(get_time_flight) /\ ~LeZero(t_max)
    /\ (/\ initial_velocity = Lit(10) /\ launch_angle = Lit(0) /\ grav_acc = Lit(10)
        /\ ComponentsMatch)
          => get_time_flight = [kind |-> "finite", n |-> 0]

\* C1 witness: launch() has raised on speed 10, angle 0, gravity 10.
C1_Witness ==
    /\ LaunchRaised
    /\ initial_velocity = Lit(10) /\ launch_angle = Lit(0) /\ grav_acc = Lit(10)
    /\ y_initial_velocity = 0
    /\ get_time_flight = [kind |-> "finite", n |-> 0]

\* C2: right after set_v0(speed) the components are speed * cos and
\* speed * sin of the current angle converted to radians, as __init__
\* derives them.
C2_SetV0Derives == (pc = "idle" /\ last = "set_v0") => ComponentsMatch

\* C3: a launch() that returns with step > 0 returns ceil(flightTime / step)
\* samples, the k-th being the position at t = k * step, the first being the
\* launch point.
C3_SampleCount ==
    (LaunchReturned /\ step > 0 /\ get_time_flight.kind = "finite")
       => /\ Len(returned) = CeilDiv(get_time_flight.n, step)
          /\ \A k \in 1..Len(returned) :
                returned[k] = evolve_system(FMul(Lit(k - 1), step))
          /\ returned[1] = <<launch_coordx, launch_coordy>>

\* C4: launch() with step <= 0 and a positive flight time does not loop
\* forever, it fails with an InvalidStepError: the sampling loop, which such
\* a step never leaves, is not entered with a step <= 0.
C4_StepGuard == (pc = "loop" /\ t_max.kind = "finite" /\ t_max.n > 0) => h > 0

\* C5: with speed > 0, 0 < angle < 180, gravity > 0 and step > 0, launch()
\* returns a non-empty sequence whose every y is >= launchY.
C5_AboveLaunchHeight ==
    (/\ pc = "idle" /\ last = "launch"
     /\ initial_velocity > 0
     /\ launch_angle > Lit(0) /\ launch_angle < Lit(180)
     /\ grav_acc > 0 /\ step > 0)
       => /\ raised = "none"
          /\ returned # <<>>
          /\ \A k \in 1..Len(returned) : returned[k][2] >= launch_coordy

\* C6: whenever launch() reads the cached components they are speed * cos and
\* speed * sin of the current speed and the current angle.
C6_ComponentsFresh == (pc = "loop" \/ (pc = "idle" /\ last = "launch")) => ComponentsMatch

\* C7: whenever the vertical component is <= 0 or gravity is <= 0, launch()
\* fails with FlightTimeException: it neither samples nor returns.
C7_NonPositiveFails ==
    (y_initial_velocity <= 0 \/ grav_acc <= 0)
       => /\ pc # "loop"
          /\ (pc = "idle" /\ last = "launch") => raised = "FlightTimeException"

\* C8: two launch() calls in a row, no setter between them, return the same
\* sequence, and the stored trajectory is then that sequence.
C8_Idempotent ==
    (LaunchReturned /\ between = "none")
       => /\ returned = prev_returned
          /\ has_trajectory
          /\ trajectory_array = returned

\* C8 witness: the second of two launches in a row has returned several samples.
C8_Witness == LaunchReturned /\ between = "none" /\ Len(returned) > 1

\* C9: the launch() after halving the step returns at least as many samples
\* as the launch() before, namely twice as many or one fewer than that.
C9_HalvedStepDoubles ==
    (LaunchReturned /\ between = "halved")
       => /\ Len(returned) >= Len(prev_returned)
          /\ Len(returned) \in {2 * Len(prev_returned), 2 * Len(prev_returned) - 1}

\* C10: launch() changes nothing but the stored trajectory, which a return
\* sets to the returned sequence and a raise leaves as it was; no setter
\* changes the stored trajectory.
C10_Frame ==
    [][/\ (pc' = "loop" \/ last' = "launch") => config' = config
       /\ pc' = "loop" => stored' = stored
       /\ (pc = "loop" /\ pc' = "idle")
             => has_trajectory' /\ trajectory_array' = returned'
       /\ (pc = "idle" /\ pc' = "idle") => stored' = stored]_vars

\* C10 witness: launch() has raised on an object that holds the trajectory of
\* an earlier launch (setters were called in between).
C10_Witness == LaunchRaised /\ has_trajectory /\ Len(trajectory_array) > 1

====
